---- MODULE Spec2Model ----
(***************************************************************************)
(* AXIS-style appraisal + construct addendum (src/axis_app.py): the text   *)
(* segmenter, the pattern bank, the knowledge-base matcher, the two        *)
(* scorers and the scoring pipeline.                                       *)
(*                                                                         *)
(* Text is modelled at word granularity.  A text (a Python str) is a       *)
(* sequence of tokens; two neighbouring word tokens are separated by one   *)
(* blank, and every other piece of whitespace is a token of its own (NL, a *)
(* line break; SP, a further blank).  A text is the empty string exactly   *)
(* when it has no token.  A word token records the letters of the word     *)
(* lower-cased (w), its casing (c) and its trailing punctuation (p), so    *)
(* that case-insensitive search, str.title(), str.lower() and the sentence *)
(* splitter are computed from what they look at.  Words are spelt with     *)
(* ASCII letters.                                                          *)
(***************************************************************************)
EXTENDS Integers, Sequences, FiniteSets, TLC

VARIABLES
    KB,              \* constructs.yaml: [constructs, measures]
    AXIS,            \* axis.yaml: [axis_items, construct_addendum]
    blob,            \* the text extract_text returned for the upload
    n,               \* sectionize: number of lines already placed
    current,         \* sectionize: the section that is open
    secs,            \* sectionize: section name -> list of lines
    sections,        \* the mapping sectionize returned (secs of the script)
    axis_proposals,  \* rows built for AXIS["axis_items"]
    add_proposals,   \* rows built for AXIS["construct_addendum"]
    pc               \* position of the script: sectionize, score, ready

vars == <<KB, AXIS, blob, n, current, secs, sections, axis_proposals, add_proposals, pc>>

----------------------------------------------------------------------------
(* Tokens *)

Tok(w, c, p) == [w |-> w, c |-> c, p |-> p]
\* casing: "l" lower, "T" Title, "U" UPPER, "(" a lower-case word behind "("
Lw(w) == Tok(w, "l", "")
Tw(w) == Tok(w, "T", "")
Uw(w) == Tok(w, "U", "")
Lp(w) == Tok(w, "l", ".")
Up(w) == Tok(w, "U", ".")
NL == Tok("<nl>", "l", "")
SP == Tok("<sp>", "l", "")

IsSpace(t) == t.w \in {"<nl>", "<sp>"}

\* The maximal runs of word characters of a word, in order ("\b" falls at
\* each "-" and "/").
Parts(w) ==
    CASE w = "self-control"    -> <<"self", "control">>
      [] w = "grit-s"          -> <<"grit", "s">>
      [] w = "self-regulation" -> <<"self", "regulation">>
      [] w = "jingle-jangle"   -> <<"jingle", "jangle">>
      [] w = "model/theory"    -> <<"model", "theory">>
      [] OTHER                 -> <<w>>

\* Proper beginnings and endings of a word that are words of a pattern: a
\* search without "\b" finds them too.
Prefixes(w) ==
    CASE w = "granted"    -> {"grant"}
      [] w = "inhibitory" -> {"inhibit"}
      [] OTHER            -> {}

Suffixes(w) ==
    CASE w = "claims" -> {"aims"}
      [] OTHER        -> {}

----------------------------------------------------------------------------
(* str.splitlines, "\n".join, " ".join, str.strip *)

RECURSIVE SplitAcc(_, _, _)
SplitAcc(text, cur, out) ==
    IF text = <<>>
    THEN IF cur = <<>> THEN out ELSE Append(out, cur)
    ELSE IF Head(text) = NL
         THEN SplitAcc(Tail(text), <<>>, Append(out, cur))
         ELSE SplitAcc(Tail(text), Append(cur, Head(text)), out)

splitlines(text) == SplitAcc(text, <<>>, <<>>)

RECURSIVE JoinWith(_, _)
JoinWith(sep, texts) ==
    IF texts = <<>> THEN <<>>
    ELSE IF Len(texts) = 1 THEN texts[1]
    ELSE texts[1] \o <<sep>> \o JoinWith(sep, Tail(texts))

RECURSIVE LStrip(_)
LStrip(line) ==
    IF line # <<>> /\ IsSpace(Head(line)) THEN LStrip(Tail(line)) ELSE line

RECURSIVE RStrip(_)
RStrip(line) ==
    IF line # <<>> /\ IsSpace(line[Len(line)])
    THEN RStrip(SubSeq(line, 1, Len(line) - 1))
    ELSE line

strip(line) == RStrip(LStrip(line))

----------------------------------------------------------------------------
(* SPLIT and sentences *)

\* SPLIT matches the whitespace between a and b.
SPLIT(a, b) ==
    \/ a.p = "." /\ b.c \in {"T", "U", "("}
    \/ a.p \in {"!", "?"}

RECURSIVE SentAcc(_, _, _)
SentAcc(words, cur, out) ==
    IF words = <<>>
    THEN IF cur = <<>> THEN out ELSE Append(out, cur)
    ELSE IF cur # <<>> /\ SPLIT(cur[Len(cur)], Head(words))
         THEN SentAcc(Tail(words), <<Head(words)>>, Append(out, cur))
         ELSE SentAcc(Tail(words), Append(cur, Head(words)), out)

\* re.sub(r'\s+', ' ', text) leaves the words one blank apart; the pieces
\* SPLIT cuts are stripped and the empty ones dropped.
sentences(text) == SentAcc(SelectSeq(text, LAMBDA t : ~IsSpace(t)), <<>>, <<>>)

----------------------------------------------------------------------------
(* SECTION_HEAD and sectionize *)

HeadStems ==
    {"abstract", "introduction", "background", "theory", "method", "methods",
     "measure", "measures", "participant", "participants", "procedure",
     "result", "results", "discussion", "conclusion", "funding",
     "acknowledgements", "ethics"}

\* the leftmost heading word inside a word, "" if it has none
RECURSIVE FirstHeading(_)
FirstHeading(parts) ==
    IF parts = <<>> THEN ""
    ELSE IF Head(parts) \in HeadStems THEN Head(parts)
    ELSE FirstHeading(Tail(parts))

\* SECTION_HEAD.search(line): <<m>>, m the leftmost heading word of the line
\* as it is written, or <<>> (None).
RECURSIVE SECTION_HEAD_search(_)
SECTION_HEAD_search(line) ==
    IF line = <<>> THEN <<>>
    ELSE IF ~IsSpace(Head(line)) /\ FirstHeading(Parts(Head(line).w)) # ""
         THEN <<Tok(FirstHeading(Parts(Head(line).w)), Head(line).c, "")>>
         ELSE SECTION_HEAD_search(Tail(line))

\* str.lower() in the place of str.title()
title_lower(m) == m.w

\* str.title() of a matched heading word: first letter upper, the rest lower.

title(m) ==
    LET h == m.w IN
    CASE h = "abstract"         -> "Abstract"
      [] h = "introduction"     -> "Introduction"
      [] h = "background"       -> "Background"
      [] h = "theory"           -> "Theory"
      [] h = "method"           -> "Method"
      [] h = "methods"          -> "Methods"
      [] h = "measure"          -> "Measure"
      [] h = "measures"         -> "Measures"
      [] h = "participant"      -> "Participant"
      [] h = "participants"     -> "Participants"
      [] h = "procedure"        -> "Procedure"
      [] h = "result"           -> "Result"
      [] h = "results"          -> "Results"
      [] h = "discussion"       -> "Discussion"
      [] h = "conclusion"       -> "Conclusion"
      [] h = "funding"          -> "Funding"
      [] h = "acknowledgements" -> "Acknowledgements"
      [] h = "ethics"           -> "Ethics"

get(d, k) == IF k \in DOMAIN d THEN d[k] ELSE <<>>

\* The section a line is put into: the one it opens, else the open one.
SectionOf(line, cur) ==
    LET m == SECTION_HEAD_search(strip(line)) IN
    IF m # <<>> THEN title(m[1]) ELSE cur

\* the stripped line appended in the place of the line
AppendedStripped(line) == strip(line)

\* What is appended to the buffer for a line.

Appended(line) == line

\* One turn of the loop of sectionize.
SectionizeLine ==
    /\ pc = "sectionize"
    /\ n < Len(splitlines(blob))
    /\ LET line == splitlines(blob)[n + 1]
           cur  == SectionOf(line, current)
       IN /\ current' = cur
          /\ secs' = [k \in DOMAIN secs \cup {cur} |->
                          IF k = cur THEN Append(get(secs, k), Appended(line))
                                     ELSE secs[k]]
    /\ n' = n + 1
    /\ UNCHANGED <<KB, AXIS, blob, sections, axis_proposals, add_proposals, pc>>

\* The return of sectionize: every buffer joined with line breaks.
SectionizeReturn ==
    /\ pc = "sectionize"
    /\ n = Len(splitlines(blob))
    /\ sections' = [k \in DOMAIN secs |-> JoinWith(NL, secs[k])]
    /\ pc' = "score"
    /\ UNCHANGED <<KB, AXIS, blob, n, current, secs, axis_proposals, add_proposals>>

----------------------------------------------------------------------------
(* Pattern bank.  A compiled pattern is a set of alternatives, each a      *)
(* phrase: the sequence of the lower-cased words it spells.  b says        *)
(* whether the alternatives sit between "\b".  All are compiled with re.I. *)

Pat(alts)  == [kind |-> "alts", alts |-> alts, b |-> TRUE]
Sub(alts)  == [kind |-> "alts", alts |-> alts, b |-> FALSE]
ANYCHAR    == [kind |-> "dot", alts |-> {}, b |-> FALSE]     \* re.compile(r'.')
EMPTYPAT   == [kind |-> "empty", alts |-> {}, b |-> FALSE]   \* re.compile(r'')

RE_DEF      == Pat({<<"defined", "as">>, <<"we", "define">>, <<"is", "defined", "as">>,
                    <<"refers", "to">>})
RE_BOUNDARY == Pat({<<"distinct", "from">>, <<"differs", "from">>, <<"as", "opposed", "to">>,
                    <<"not", "merely">>, <<"boundary">>, <<"scope", "condition">>,
                    <<"scope", "conditions">>})
RE_THEORY   == Pat({<<"model">>, <<"mechanism">>, <<"dual-system">>, <<"dual-systems">>,
                    <<"dual", "system">>, <<"dual", "systems">>, <<"dualsystem">>,
                    <<"dualsystems">>, <<"process", "model">>,
                    <<"expected", "value", "of", "control">>, <<"valuation">>,
                    <<"control", "theory">>})
RE_VALIDITY == Pat({<<"convergent">>, <<"discriminant">>, <<"criterion">>, <<"predictive">>,
                    <<"known-groups">>, <<"known", "groups">>, <<"response-process">>,
                    <<"response", "process">>, <<"factor", "validity">>})
RE_RELIAB   == Pat({<<"alpha">>, <<"cronbach">>, <<"omega">>, <<"test-retest">>,
                    <<"test", "retest">>, <<"testretest">>, <<"icc">>})
RE_DESIGN   == Pat({<<"randomised">>, <<"randomized">>, <<"experiment">>, <<"intervention">>,
                    <<"longitudinal">>, <<"cross-sectional">>, <<"cross", "sectional">>,
                    <<"pre-post">>, <<"pre", "post">>, <<"rct">>})
\* "\b" binds only to the first and the last alternative of RE_FUND; the
\* others are found anywhere, inside a word too.
RE_FUND     == Sub({<<"funding">>, <<"funded">>, <<"grant">>, <<"sponsor">>,
                    <<"conflict", "of", "interest">>, <<"coi">>})
RE_ETHICS   == Pat({<<"irb">>, <<"ethic", "committee">>, <<"ethical", "committee">>,
                    <<"approved">>, <<"consent">>})
\* the patterns compiled inside the scorers
RE_AIMS     == Pat({<<"aim">>, <<"objective">>, <<"we", "aim">>, <<"we", "seek">>,
                    <<"research", "question">>})
RE_SAMPLING == Pat({<<"sample">>, <<"participant">>, <<"participants">>, <<"recruit">>,
                    <<"eligibility">>, <<"inclusion">>, <<"exclusion">>})
RE_CONFOUND == Pat({<<"confound">>, <<"control">>, <<"controls">>, <<"controlled">>,
                    <<"covariate">>, <<"adjusted">>, <<"adjustment">>})
RE_STATS    == Pat({<<"regression">>, <<"anova">>, <<"mixed-effects">>, <<"mixed", "effects">>,
                    <<"model">>, <<"estimat">>, <<"hypothesis", "test">>, <<"assumption">>})
RE_PRECISION == Pat({<<"effect", "size">>, <<"confidence", "interval">>, <<"ci">>,
                     <<"standard", "error">>, <<"p<">>})
RE_CONCL    == Pat({<<"limit">>, <<"caution">>, <<"consistent", "with">>,
                    <<"cannot", "infer", "causality">>})
RE_FIT      == Pat({<<"cfi">>, <<"tli">>, <<"rmsea">>, <<"srmr">>, <<"cfa">>, <<"factor">>})

Last(q) == q[Len(q)]

\* The word x is found in the token t: anywhere in it, at its end, or at its
\* beginning.  With b the word must sit between "\b".
HitsAny(x, t, b) ==
    \/ x = t.w
    \/ \E k \in 1..Len(Parts(t.w)) : x = Parts(t.w)[k]
    \/ ~b /\ x \in Prefixes(t.w) \cup Suffixes(t.w)

HitsEnd(x, t, b) ==
    \/ x = t.w
    \/ x = Last(Parts(t.w))
    \/ ~b /\ x \in Suffixes(t.w)

HitsStart(x, t, b) ==
    \/ x = t.w
    \/ x = Parts(t.w)[1]
    \/ ~b /\ x \in Prefixes(t.w)

\* The phrase ph is found in s from token i on: its words follow each other
\* one blank apart, the first ending its token, the last beginning its own.
PhraseAt(s, i, ph, b) ==
    /\ i + Len(ph) - 1 <= Len(s)
    /\ \A j \in 1..Len(ph) :
          LET t == s[i + j - 1] IN
          /\ ~IsSpace(t)
          /\ IF Len(ph) = 1 THEN HitsAny(ph[j], t, b)
             ELSE IF j = 1 THEN HitsEnd(ph[j], t, b)
             ELSE IF j = Len(ph) THEN HitsStart(ph[j], t, b)
             ELSE ph[j] = t.w
          /\ j < Len(ph) => t.p = ""
          /\ j > 1 => t.c # "("

\* pattern.search(s), s a sentence or a text
search(pattern, s) ==
    CASE pattern.kind = "empty" -> TRUE
      [] pattern.kind = "dot"   -> \E i \in 1..Len(s) : s[i] # NL
      [] OTHER -> \E ph \in pattern.alts : \E i \in 1..Len(s) : PhraseAt(s, i, ph, pattern.b)

Take(s, k) == SubSeq(s, 1, IF Len(s) < k THEN Len(s) ELSE k)

DefaultMaxn == 6

\* out[1:maxn] in the place of out[:maxn]
find_hits_skipfirst(text, pattern, maxn) ==
    Tail(Take(SelectSeq(sentences(text), LAMBDA s : search(pattern, s)) \o << <<>> >>, maxn))

find_hits(text, pattern, maxn) ==
    Take(SelectSeq(sentences(text), LAMBDA s : search(pattern, s)), maxn)

----------------------------------------------------------------------------
(* Knowledge-base matcher.  KB.constructs and KB.measures are the dicts of *)
(* constructs.yaml in file order: sequences of entries with distinct names.*)
(* A label or alias is the sequence of the tokens that spell it.           *)

Stems(lbl) == [j \in 1..Len(lbl) |-> lbl[j].w]

\* re.search(rf'\b{re.escape(lbl)}\b', blob, re.I)
label_search(lbl, text) ==
    \E i \in 1..Len(text) : PhraseAt(text, i, Stems(lbl), TRUE)

\* the labels of one construct found in the text (a sorted list without
\* duplicates in the code; here the set it lists)
found_labels(cnode, text) ==
    LET labels == cnode.canonical \o cnode.neighbors IN
    {labels[j] : j \in {j \in 1..Len(labels) : label_search(labels[j], text)}}

\* construct name -> labels found, for the constructs with a label found
detect_construct_labels(text) ==
    LET hit == {c \in 1..Len(KB.constructs) : found_labels(KB.constructs[c], text) # {}} IN
    [k \in {KB.constructs[c].name : c \in hit} |->
        found_labels(CHOOSE cn \in {KB.constructs[c] : c \in hit} : cn.name = k, text)]

Hit(mnode, alias) ==
    [measure |-> mnode.id, alias |-> alias, type |-> mnode.type, targets |-> mnode.targets]

\* the inner loop of detect_measures without its break
alias_hits_nobreak(mnode, text) ==
    LET a == SelectSeq(mnode.aliases, LAMBDA alias : label_search(alias, text)) IN
    [j \in 1..Len(a) |-> Hit(mnode, a[j])]

\* only the first alias tested
alias_hits_firstonly(mnode, text) ==
    IF mnode.aliases # <<>> /\ label_search(mnode.aliases[1], text)
    THEN <<Hit(mnode, mnode.aliases[1])>> ELSE <<>>

\* the inner loop of detect_measures: the first alias found, then break
alias_hits(mnode, text) ==
    LET a == SelectSeq(mnode.aliases, LAMBDA alias : label_search(alias, text)) IN
    IF a = <<>> THEN <<>> ELSE <<Hit(mnode, a[1])>>

RECURSIVE MeasuresFrom(_, _)
MeasuresFrom(ms, text) ==
    IF ms = <<>> THEN <<>>
    ELSE alias_hits(Head(ms), text) \o MeasuresFrom(Tail(ms), text)

detect_measures(text) == MeasuresFrom(KB.measures, text)

----------------------------------------------------------------------------
(* Heuristics per item.  An item is [id, label, guidance, section_hint]; a *)
(* label is the sequence of the tokens that spell it.                      *)

\* key in label.lower()
in_lower(key, label) ==
    \E i \in 1..Len(label) : PhraseAt(label, i, key, FALSE)

\* " ".join([sections.get(h, "") for h in item.get("section_hint", [])])
hinted(item, secmap) ==
    JoinWith(SP, [j \in 1..Len(item.section_hint) |-> get(secmap, item.section_hint[j])])

\* a or b, of two strings
or_else(a, b) == IF a # <<>> THEN a ELSE b

\* "Unclear" for every rule without a hit
YesOr_unclear(other, hits) ==
    [proposed |-> IF hits # <<>> THEN "Yes" ELSE "Unclear", evidence |-> hits]

\* the proposal left unset without a hit
YesOr_none(other, hits) ==
    [proposed |-> IF hits # <<>> THEN "Yes" ELSE "None", evidence |-> hits]

\* "Yes" if hits else other, with the hits as evidence
YesOr(other, hits) ==
    [proposed |-> IF hits # <<>> THEN "Yes" ELSE other, evidence |-> hits]

propose_axis_score(item, secmap) ==
    LET sec_text == hinted(item, secmap)
        label    == item.label
    IN
    IF in_lower(<<"aims">>, label) THEN
        YesOr("Unclear", find_hits(or_else(sec_text, get(secmap, "Full Text")), RE_AIMS, DefaultMaxn))
    ELSE IF in_lower(<<"design", "appropriate">>, label) THEN
        YesOr("Unclear", find_hits(sec_text, RE_DESIGN, DefaultMaxn))
    ELSE IF in_lower(<<"sampling", "frame">>, label) THEN
        YesOr("Unclear", find_hits(sec_text, RE_SAMPLING, DefaultMaxn))
    ELSE IF in_lower(<<"validity">>, label) THEN
        YesOr("Unclear", find_hits(sec_text, RE_VALIDITY, DefaultMaxn))
    ELSE IF in_lower(<<"reliability">>, label) THEN
        YesOr("Unclear", find_hits(sec_text, RE_RELIAB, DefaultMaxn))
    ELSE IF in_lower(<<"confounding">>, label) THEN
        YesOr("Unclear", find_hits(sec_text, RE_CONFOUND, DefaultMaxn))
    ELSE IF in_lower(<<"statistical", "methods">>, label) THEN
        YesOr("Unclear", find_hits(sec_text, RE_STATS, DefaultMaxn))
    ELSE IF in_lower(<<"precision">>, label) THEN
        YesOr("Unclear", find_hits(sec_text, RE_PRECISION, DefaultMaxn))
    ELSE IF in_lower(<<"conclusions", "justified">>, label) THEN
        YesOr("Unclear", find_hits(or_else(sec_text, get(secmap, "Discussion")), RE_CONCL, DefaultMaxn))
    ELSE IF in_lower(<<"funding">>, label) THEN
        YesOr("Unclear", find_hits(get(secmap, "Funding") \o <<SP>> \o get(secmap, "Acknowledgements"),
                                   RE_FUND, DefaultMaxn))
    ELSE IF in_lower(<<"ethical">>, label) THEN
        YesOr("N/A", find_hits(get(secmap, "Ethics") \o <<SP>> \o get(secmap, "Method"),
                               RE_ETHICS, DefaultMaxn))
    ELSE
        [proposed |-> "Unclear",
         evidence |-> Take(find_hits(or_else(sec_text, get(secmap, "Full Text")), ANYCHAR, DefaultMaxn), 3)]

\* every subcomponent phrase of the knowledge base, in file order
RECURSIVE SubsFrom(_)
SubsFrom(cs) ==
    IF cs = <<>> THEN <<>> ELSE Head(cs).subcomponents \o SubsFrom(Tail(cs))

\* "|".join of the escaped phrases compiled with re.I, or re.compile(r'')
subs_pattern(subs) ==
    IF subs # <<>> THEN Sub({Stems(subs[j]) : j \in 1..Len(subs)}) ELSE EMPTYPAT

ARROW == Tok("->", "l", "")

RECURSIVE CommaJoin(_)
CommaJoin(names) ==
    IF names = <<>> THEN <<>>
    ELSE IF Len(names) = 1 THEN <<Lw(names[1])>>
    ELSE <<Tok(names[1], "l", ",")>> \o CommaJoin(Tail(names))

\* f"{m['alias']} -> {', '.join(m['targets'])}"
measure_line(m) == m.alias \o <<ARROW>> \o CommaJoin(m.targets)

\* f"{k}: {v}"; the labels are printed in the order of the knowledge base
construct_line(cnode, text) ==
    LET labels == cnode.canonical \o cnode.neighbors IN
    <<Tok(cnode.name, "l", ":")>>
        \o JoinWith(Tok(",", "l", ""), SelectSeq(labels, LAMBDA l : label_search(l, text)))

JINGLE == "Jingle risk: SC label with Grit-S measure."

propose_construct_score(citem, secmap, full) ==
    LET hint  == or_else(hinted(citem, secmap), full)
        label == citem.label
    IN
    IF in_lower(<<"definition">>, label) THEN
        YesOr("Unclear", find_hits(hint, RE_DEF, DefaultMaxn))
    ELSE IF in_lower(<<"subcomponents">>, label) THEN
        YesOr("Unclear", find_hits(hint, subs_pattern(SubsFrom(KB.constructs)), DefaultMaxn))
    ELSE IF in_lower(<<"model/theory">>, label) THEN
        YesOr("Unclear", find_hits(hint, RE_THEORY, DefaultMaxn))
    ELSE IF in_lower(<<"measures", "align">>, label) THEN
        LET measures   == detect_measures(full)
            constructs == detect_construct_labels(full)
            ops        == {measures[j].measure : j \in 1..Len(measures)}
        IN [proposed |-> IF measures # <<>> THEN "Yes" ELSE "No",
            evidence |-> [j \in 1..Len(measures) |-> measure_line(measures[j])],
            warnings |-> IF "self-control" \in DOMAIN constructs /\ "GritS" \in ops
                         THEN <<JINGLE>> ELSE <<>>]
    ELSE IF in_lower(<<"jingle-jangle">>, label) THEN   \* spelt with an en dash in the code
        LET constructs == detect_construct_labels(full)
            found      == SelectSeq(KB.constructs, LAMBDA cn : cn.name \in DOMAIN constructs)
        IN [proposed |-> IF search(RE_BOUNDARY, full) THEN "Yes"
                         ELSE IF DOMAIN constructs # {} THEN "Unclear" ELSE "N/A",
            evidence |-> [j \in 1..Len(found) |-> construct_line(found[j], full)]]
    ELSE IF in_lower(<<"evidence", "type", "supports">>, label) THEN
        LET has_valid == find_hits(full, RE_VALIDITY, DefaultMaxn) # <<>>
            has_fit   == find_hits(full, RE_FIT, DefaultMaxn) # <<>>
        IN [proposed |-> IF has_valid \/ has_fit THEN "Yes" ELSE "Unclear",
            evidence |-> find_hits(full, RE_VALIDITY, 3) \o find_hits(full, RE_FIT, 3)]
    ELSE
        [proposed |-> "Unclear", evidence |-> <<>>]

----------------------------------------------------------------------------
(* The scoring pipeline of the script *)

Row(item, proposal) ==
    [id |-> item.id, label |-> item.label, guidance |-> item.guidance, proposal |-> proposal]

\* one turn of the loop over AXIS["axis_items"]
AxisStep ==
    /\ pc = "score"
    /\ Len(axis_proposals) < Len(AXIS.axis_items)
    /\ LET item == AXIS.axis_items[Len(axis_proposals) + 1] IN
       axis_proposals' = Append(axis_proposals, Row(item, propose_axis_score(item, sections)))
    /\ UNCHANGED <<KB, AXIS, blob, n, current, secs, sections, add_proposals, pc>>

\* one turn of the loop over AXIS["construct_addendum"]
ConstructStep ==
    /\ pc = "score"
    /\ Len(axis_proposals) = Len(AXIS.axis_items)
    /\ Len(add_proposals) < Len(AXIS.construct_addendum)
    /\ LET citem == AXIS.construct_addendum[Len(add_proposals) + 1] IN
       add_proposals' = Append(add_proposals, Row(citem, propose_construct_score(citem, sections, blob)))
    /\ UNCHANGED <<KB, AXIS, blob, n, current, secs, sections, axis_proposals, pc>>

\* st.success("Draft appraisal ready"): both lists of rows are built
Ready ==
    /\ pc = "score"
    /\ Len(axis_proposals) = Len(AXIS.axis_items)
    /\ Len(add_proposals) = Len(AXIS.construct_addendum)
    /\ pc' = "ready"
    /\ UNCHANGED <<KB, AXIS, blob, n, current, secs, sections, axis_proposals, add_proposals>>

Next == SectionizeLine \/ SectionizeReturn \/ AxisStep \/ ConstructStep \/ Ready

----------------------------------------------------------------------------
(* Inputs: knowledge bases, checklists and articles *)

MaxSectLines == 3    \* lines of an article, segmenter runs
MaxAxisLines == 2    \* lines of an article, AXIS scorer runs
MaxConsLines == 2    \* lines of an article, construct addendum runs

RECURSIVE SeqsUpTo(_, _)
SeqsUpTo(S, k) ==
    IF k = 0 THEN {<<>>}
    ELSE LET shorter == SeqsUpTo(S, k - 1) IN
         shorter \cup {Append(q, x) : q \in shorter, x \in S}

\* the articles of at most k lines taken from the pool
Articles(pool, k) == {JoinWith(NL, ls) : ls \in SeqsUpTo(pool, k)}

GRIT_S      == <<Tw("grit-s")>>
SHORT_GRIT  == <<Tw("short"), Tw("grit"), Tw("scale")>>
GRIT        == <<Lw("grit")>>
SELFCONTROL == <<Lw("self-control")>>
SELF_CONTROL == <<Lw("self"), Lw("control")>>

Construct(name, canonical, neighbors, subcomponents) ==
    [name |-> name, canonical |-> canonical, neighbors |-> neighbors,
     subcomponents |-> subcomponents]

Measure(id, aliases, targets) ==
    [id |-> id, aliases |-> aliases, type |-> "self-report", targets |-> targets]

ConstructPools ==
    { << Construct("self-control", <<SELFCONTROL, SELF_CONTROL>>, << <<Lw("willpower")>> >>,
                   << <<Lw("inhibit")>>, <<Lw("delay"), Lw("of"), Lw("gratification")>> >>),
         Construct("self-regulation", << <<Lw("self-regulation")>> >>, <<>>, <<>>) >>,
      << Construct("self-control", <<SELFCONTROL>>, << <<Lw("willpower")>> >>, <<>>),
         Construct("self-regulation", << <<Lw("self-regulation")>> >>, <<>>, <<>>) >>,
      << Construct("self-regulation", <<>>, << <<Lw("willpower")>> >>, <<>>),
         Construct("self-control", <<SELF_CONTROL, SELFCONTROL>>, <<>>, <<>>) >> }

AliasPools ==
    { <<GRIT_S>>, <<SHORT_GRIT, GRIT_S>>, <<GRIT_S, GRIT>>, <<GRIT, SHORT_GRIT, GRIT_S>>, <<SHORT_GRIT>> }

KBs ==
    { [constructs |-> cs,
       measures   |-> << Measure("BSCS", << <<Uw("bscs")>> >>, <<"self-control">>),
                         Measure("GritS", al, <<"self-control", "grit">>) >>]
      : cs \in ConstructPools, al \in AliasPools }

KB0 == CHOOSE kb \in KBs : kb.measures[2].aliases = <<GRIT_S>> /\ Len(kb.constructs[1].subcomponents) = 2

Item(id, label, hint) ==
    [id |-> id, label |-> label, guidance |-> "guidance", section_hint |-> hint]

AxisLabels ==
    { <<Tw("were"), Lw("the"), Lw("aims"), Lw("clear")>>,
      <<Tw("was"), Lw("the"), Lw("study"), Tw("design"), Lw("appropriate")>>,
      <<Tw("sampling"), Lw("frame")>>,
      <<Tw("measurement"), Lw("validity")>>,
      <<Tw("reliability"), Lw("of"), Lw("measures")>>,
      <<Tw("confounding")>>,
      <<Tw("statistical"), Lw("methods")>>,
      <<Tw("precision"), Lw("of"), Lw("estimates")>>,
      <<Tw("conclusions"), Lw("justified")>>,
      <<Tw("funding"), Lw("sources")>>,
      <<Uw("ethical"), Lw("approval"), Lw("or"), Lw("consent")>>,
      <<Tw("ethical"), Lw("approval"), Lw("and"), Lw("funding")>>,
      <<Tw("are"), Lw("the"), Lw("claims"), Lw("supported")>>,
      <<Tw("response"), Lw("rate")>> }

AxisHints ==
    { <<>>, <<"Methods">>, <<"Ethics", "Method">>, <<"Procedure", "Measures">>, <<"Full Text">> }

ConsLabels ==
    { <<Tw("construct"), Lw("definition")>>,
      <<Tw("subcomponents"), Lw("named")>>,
      <<Tw("model/theory"), Lw("stated")>>,
      <<Tw("measures"), Lw("align"), Lw("with"), Lw("construct")>>,
      <<Tw("jingle-jangle"), Lw("risk")>>,
      <<Tw("evidence"), Lw("type"), Lw("supports"), Lw("use")>>,
      <<Tw("definition"), Lw("and"), Lw("measures"), Lw("align")>>,
      <<Tw("other")>> }

ConsHints == { <<>>, <<"Methods">> }

RECURSIVE Numbered(_, _, _)
\* a checklist of one item per label of the set, in some order, ids k, k+1, ...
Numbered(labels, hint, k) ==
    IF labels = {} THEN <<>>
    ELSE LET l == CHOOSE x \in labels : TRUE IN
         <<Item(k, l, hint)>> \o Numbered(labels \ {l}, hint, k + 1)

\* the checklists tried: every single item, and one list of every label
AxisChecklists ==
    { <<Item(1, l, h)>> : l \in AxisLabels, h \in AxisHints } \cup { Numbered(AxisLabels, <<"Methods">>, 1) }

ConsChecklists ==
    { <<Item(1, l, h)>> : l \in ConsLabels, h \in ConsHints } \cup { Numbered(ConsLabels, <<>>, 1) }

AXIS0 == [axis_items |-> <<Item(1, <<Tw("sampling"), Lw("frame")>>, <<"Methods">>)>>,
          construct_addendum |-> <<Item(1, <<Tw("construct"), Lw("definition")>>, <<>>)>>]

SectLines ==
    { <<>>,
      <<Uw("methods")>>,
      <<Lw("the"), Lw("result"), Lw("was"), Lp("clear")>>,
      <<SP, Tw("ethics"), Lw("approval"), SP>>,
      <<SP, Tw("we"), Lw("recruited"), Lp("students")>>,
      <<Tw("results"), Lw("and"), Tw("discussion")>>,
      <<Tw("methodology")>>,
      <<Lw("participant"), Lw("self-control")>> }

IRB_SENTENCE == <<Tw("the"), Lw("study"), Lw("was"), Lw("approved"), Lw("by"), Lw("the"), Uw("irb")>>
CONSENT      == Tok("consent", "T", ".")

AxisLines ==
    { <<Tw("the"), Lw("study"), Lw("was"), Lw("approved"), Lw("by"), Lw("the"), Up("irb")>>,
      <<Tw("methods")>>,
      <<Tw("method")>>,
      <<Tw("ethics"), CONSENT, CONSENT, CONSENT, CONSENT, CONSENT, CONSENT>>,
      <<Tw("we"), Lw("ran"), Lw("a"), Lw("randomized"), Lp("experiment")>>,
      <<Tw("we"), Lw("measured"), Lp("grit")>>,
      <<Tw("ethics"), Lw("review"), Lw("by"), Lw("the"), Lw("ethical")>>,
      <<Lw("committee"), Lw("method")>> }

ConsLines ==
    { <<>>,
      <<Tw("we"), Lw("used"), Lw("the"), Tok("grit-s", "T", ".")>>,
      <<Tw("self-control"), Lw("is"), Lw("defined"), Lw("as"), Lp("restraint")>>,
      <<Tw("the"), Tw("short"), Tw("grit"), Tw("scale"), Lw("measures"), Lw("self"), Lp("control")>>,
      <<Tw("inhibitory"), Lw("control"), Lw("is"), Lw("distinct"), Lw("from"), Lp("willpower")>>,
      <<Tw("convergent"), Lw("validity"), Lw("and"), Uw("cfa"), Lp("fit")>> }

\* the state of the script when the upload has been read
Start(kb, axis, text) ==
    /\ KB = kb
    /\ AXIS = axis
    /\ blob = text
    /\ n = 0
    /\ current = "Full Text"
    /\ secs = [k \in {"Full Text"} |-> <<>>]
    /\ sections = [k \in {} |-> <<>>]
    /\ axis_proposals = <<>>
    /\ add_proposals = <<>>
    /\ pc = "sectionize"

InitSect ==
    \E text \in Articles(SectLines, MaxSectLines) : Start(KB0, AXIS0, text)

InitAxis ==
    \E text \in Articles(AxisLines, MaxAxisLines) : \E items \in AxisChecklists :
        Start(KB0, [AXIS0 EXCEPT !.axis_items = items], text)

InitCons ==
    \E text \in Articles(ConsLines, MaxConsLines) : \E kb \in KBs : \E items \in ConsChecklists :
        Start(kb, [AXIS0 EXCEPT !.construct_addendum = items], text)

Init == InitSect \/ InitAxis \/ InitCons

Spec     == Init /\ [][Next]_vars
SpecSect == InitSect /\ [][Next]_vars
SpecAxis == InitAxis /\ [][Next]_vars
SpecCons == InitCons /\ [][Next]_vars

----------------------------------------------------------------------------
(* Vocabulary of the properties *)

Scores == {"Yes", "No", "Unclear", "N/A"}

\* the section names the specification lists
Vocabulary ==
    {"Abstract", "Introduction", "Background", "Theory", "Method", "Methods", "Measures",
     "Participants", "Procedure", "Results", "Discussion", "Conclusion", "Funding",
     "Acknowledgements", "Ethics"}

\* the phrases the scorers test the label for, in the order they test them
AxisKeys ==
    << <<"aims">>, <<"design", "appropriate">>, <<"sampling", "frame">>, <<"validity">>,
       <<"reliability">>, <<"confounding">>, <<"statistical", "methods">>, <<"precision">>,
       <<"conclusions", "justified">>, <<"funding">>, <<"ethical">> >>

AxisPatterns ==
    <<RE_AIMS, RE_DESIGN, RE_SAMPLING, RE_VALIDITY, RE_RELIAB, RE_CONFOUND, RE_STATS,
      RE_PRECISION, RE_CONCL, RE_FUND, RE_ETHICS>>

ConsKeys ==
    << <<"definition">>, <<"subcomponents">>, <<"model/theory">>, <<"measures", "align">>,
       <<"jingle-jangle">>, <<"evidence", "type", "supports">> >>

\* the first phrase of keys the label contains (0: none, the default rule)
FirstKey(keys, label) ==
    LET hit == {j \in 1..Len(keys) : in_lower(keys[j], label)} IN
    IF hit = {} THEN 0 ELSE CHOOSE j \in hit : \A k \in hit : j <= k

Words(text) == SelectSeq(text, LAMBDA t : ~IsSpace(t))

\* the phrase stands in the text letter for letter (its last word may be
\* followed by punctuation)
Verbatim(text, ph) ==
    \E i \in 1..Len(text) :
        /\ i + Len(ph) - 1 <= Len(text)
        /\ \A j \in 1..Len(ph) :
              /\ text[i + j - 1].w = ph[j].w
              /\ text[i + j - 1].c = ph[j].c
              /\ j < Len(ph) => text[i + j - 1].p = ph[j].p

\* e is a contiguous stretch of the text
Stretch(e, text) ==
    \E i \in 1..Len(text) : i + Len(e) - 1 <= Len(text) /\ SubSeq(text, i, i + Len(e) - 1) = e

SomeSentence(text, pattern) ==
    \E k \in 1..Len(sentences(text)) : search(pattern, sentences(text)[k])

AxisRows == 1..Len(axis_proposals)
ConsRows == 1..Len(add_proposals)

----------------------------------------------------------------------------
(* C1 *)

\* C1: on an article with no recognised heading, an AXIS item whose hint is
\* empty or names no section of the map, and whose rule is driven by the
\* hint (every rule but funding and ethical), is scored on "Full Text":
\* when Full Text has a sentence matching the rule's pattern the evidence is
\* not empty and, for the rules that have a pattern of their own, the
\* proposal is "Yes".
C1_FullTextFallback ==
    \A j \in AxisRows :
        LET item == AXIS.axis_items[j]
            r    == FirstKey(AxisKeys, item.label)
            p    == axis_proposals[j].proposal
            pat  == IF r = 0 THEN ANYCHAR ELSE AxisPatterns[r]
        IN  ( /\ DOMAIN sections = {"Full Text"}
              /\ \A i \in 1..Len(item.section_hint) : item.section_hint[i] \notin DOMAIN sections
              /\ r \notin {10, 11}
              /\ SomeSentence(sections["Full Text"], pat) )
            => /\ p.evidence # <<>>
               /\ r # 0 => p.proposed = "Yes"

----------------------------------------------------------------------------
(* C2 *)

EthicsText == get(sections, "Ethics") \o <<SP>> \o get(sections, "Method")

\* C2 as stated: an AXIS item whose label contains "ethical" (read: the
\* item the "ethical" rule handles) and whose hinted sections' text contains "The study was approved by the IRB" is
\* proposed "Yes" with that sentence in the evidence.
C2_HintedIrbYes ==
    \A j \in AxisRows :
        LET item == AXIS.axis_items[j]
            p    == axis_proposals[j].proposal
        IN  (FirstKey(AxisKeys, item.label) = 11 /\ Verbatim(hinted(item, sections), IRB_SENTENCE))
            => /\ p.proposed = "Yes"
               /\ \E k \in 1..Len(p.evidence) : Verbatim(p.evidence[k], IRB_SENTENCE)

\* C2, amended: an AXIS item handled by the "ethical" rule (its label
\* contains "ethical" and no phrase of a rule tested before it) is proposed
\* "Yes" whenever the text of the Ethics section or of the Method section
\* contains "The study was approved by the IRB", whatever its hint lists;
\* the evidence holds the sentence with it when that sentence is among the
\* first six of the Ethics and Method text that match the Ethics detector.
C2_EthicsMethodIrbYes ==
    \A j \in AxisRows :
        LET item == AXIS.axis_items[j]
            p    == axis_proposals[j].proposal
            all  == SelectSeq(sentences(EthicsText), LAMBDA s : search(RE_ETHICS, s))
        IN  ( /\ FirstKey(AxisKeys, item.label) = 11
              /\ \/ Verbatim(get(sections, "Ethics"), IRB_SENTENCE)
                 \/ Verbatim(get(sections, "Method"), IRB_SENTENCE) )
            => /\ p.proposed = "Yes"
               /\ (\E k \in 1..Len(all) : k <= DefaultMaxn /\ Verbatim(all[k], IRB_SENTENCE))
                    => \E k \in 1..Len(p.evidence) : Verbatim(p.evidence[k], IRB_SENTENCE)

\* an "ethical" item hinted at a section that is absent, scored "Yes" on the
\* IRB sentence found under the heading "Method"
C2_Witness ==
    \E j \in AxisRows :
        LET item == AXIS.axis_items[j]
            p    == axis_proposals[j].proposal
        IN  /\ FirstKey(AxisKeys, item.label) = 11
            /\ item.section_hint = <<"Methods">>
            /\ Verbatim(get(sections, "Method"), IRB_SENTENCE)
            /\ p.proposed = "Yes"
            /\ \E k \in 1..Len(p.evidence) : Verbatim(p.evidence[k], IRB_SENTENCE)

----------------------------------------------------------------------------
(* C3 *)

\* C3 as stated: an AXIS item whose label contains "ethical" (read: the
\* item the "ethical" rule handles) and whose hint names sections that hold no sentence matching the Ethics detector is
\* proposed "N/A", whatever the other sections hold.
C3_HintedNoEthicsNA ==
    \A j \in AxisRows :
        LET item == AXIS.axis_items[j]
            p    == axis_proposals[j].proposal
        IN  ( /\ FirstKey(AxisKeys, item.label) = 11
              /\ item.section_hint # <<>>
              /\ \A i \in 1..Len(item.section_hint) :
                    ~SomeSentence(get(sections, item.section_hint[i]), RE_ETHICS) )
            => p.proposed = "N/A"

\* C3, amended: an AXIS item handled by the "ethical" rule is proposed "Yes"
\* or "N/A", never "Unclear"; it is proposed "N/A" whenever the text of the
\* Ethics section followed by the text of the Method section holds no match
\* of the Ethics detector, whatever its hint lists and whatever the other
\* sections hold.
C3_EthicsMethodNoEthicsNA ==
    \A j \in AxisRows :
        LET item == AXIS.axis_items[j]
            p    == axis_proposals[j].proposal
        IN  FirstKey(AxisKeys, item.label) = 11
            => /\ p.proposed \in {"Yes", "N/A"}
               /\ ~search(RE_ETHICS, Words(EthicsText)) => p.proposed = "N/A" /\ p.evidence = <<>>

\* an "ethical" item proposed "N/A" although another section, and its own
\* hinted section, are not silent: Full Text holds the IRB sentence
C3_Witness ==
    \E j \in AxisRows :
        LET item == AXIS.axis_items[j]
            p    == axis_proposals[j].proposal
        IN  /\ FirstKey(AxisKeys, item.label) = 11
            /\ item.section_hint = <<"Full Text">>
            /\ Verbatim(sections["Full Text"], IRB_SENTENCE)
            /\ "Methods" \in DOMAIN sections
            /\ p.proposed = "N/A"

----------------------------------------------------------------------------
(* C4 *)

----------------------------------------------------------------------------
(* C5 *)

\* the section open after the first i lines, by the rule of the claim
RECURSIVE OpenAfter(_)
OpenAfter(i) ==
    IF i = 0 THEN "Full Text"
    ELSE LET m == SECTION_HEAD_search(strip(splitlines(blob)[i])) IN
         IF m # <<>> THEN title(m[1]) ELSE OpenAfter(i - 1)

\* the lines among the first i that belong to section k, in their order
RECURSIVE LinesOf(_, _)
LinesOf(k, i) ==
    IF i = 0 THEN <<>>
    ELSE IF OpenAfter(i) = k THEN Append(LinesOf(k, i - 1), splitlines(blob)[i])
         ELSE LinesOf(k, i - 1)

\* C5: at every point of sectionize, each of the n lines read so far stands,
\* unmodified, in exactly one buffer, that of the section open after the
\* line (a heading line in the section it opens), and every buffer holds its
\* lines in their original order: each buffer is the input restricted to
\* the lines of its section, so merging the buffers by line index gives the
\* input back.
C5_LinesPlacedOnce ==
    /\ DOMAIN secs = {"Full Text"} \cup {OpenAfter(i) : i \in 1..n}
    /\ \A k \in DOMAIN secs : secs[k] = LinesOf(k, n)
    /\ current = OpenAfter(n)
    /\ pc # "sectionize" => n = Len(splitlines(blob)) /\ DOMAIN sections = DOMAIN secs

\* three lines placed in three sections, one of them with its outer blanks
C5_Witness ==
    /\ pc = "score"
    /\ n = 3
    /\ Cardinality(DOMAIN secs) = 3
    /\ secs["Full Text"] = << <<SP, Tw("we"), Lw("recruited"), Lp("students")>> >>
    /\ \E k \in DOMAIN secs : secs[k] = << <<SP, Tw("ethics"), Lw("approval"), SP>> >>

----------------------------------------------------------------------------
(* C6 *)

\* C6: every entry of the evidence of every proposal, AXIS or addendum, is a
\* contiguous stretch of the article's whitespace-normalised text.
C6_EvidenceVerbatim ==
    /\ \A j \in AxisRows : \A k \in 1..Len(axis_proposals[j].proposal.evidence) :
          Stretch(axis_proposals[j].proposal.evidence[k], Words(blob))
    /\ \A j \in ConsRows : \A k \in 1..Len(add_proposals[j].proposal.evidence) :
          Stretch(add_proposals[j].proposal.evidence[k], Words(blob))

----------------------------------------------------------------------------
(* C7 *)

HasAlias(id, alias) ==
    \E m \in 1..Len(KB.measures) :
        /\ KB.measures[m].id = id
        /\ \E a \in 1..Len(KB.measures[m].aliases) : KB.measures[m].aliases[a] = alias

HasCanonicalIn(name, text) ==
    \E c \in 1..Len(KB.constructs) :
        /\ KB.constructs[c].name = name
        /\ \E l \in 1..Len(KB.constructs[c].canonical) :
              label_search(KB.constructs[c].canonical[l], text)

----------------------------------------------------------------------------
(* C8 *)

\* the first alias of the measure, in declared order, that the text contains
RECURSIVE FirstFound(_, _)
FirstFound(aliases, text) ==
    IF label_search(Head(aliases), text) THEN Head(aliases)
    ELSE FirstFound(Tail(aliases), text)

\* C8: one call of detect_measures reports no measure twice, reports exactly
\* the measures with an alias in the text, and for each the first of its
\* aliases, in declared order, that the text contains.
C8_OneHitPerMeasure ==
    LET hits == detect_measures(blob) IN
    /\ \A i, j \in 1..Len(hits) : hits[i].measure = hits[j].measure => i = j
    /\ \A m \in 1..Len(KB.measures) :
          LET mnode == KB.measures[m]
              found == \E a \in 1..Len(mnode.aliases) : label_search(mnode.aliases[a], blob)
          IN  /\ found <=> \E i \in 1..Len(hits) : hits[i].measure = mnode.id
              /\ \A i \in 1..Len(hits) :
                    hits[i].measure = mnode.id => hits[i].alias = FirstFound(mnode.aliases, blob)

\* a measure with two aliases in the text, reported once, under the first,
\* in the evidence of the "measures align" item
C8_Witness ==
    /\ KB.measures[2].aliases = <<GRIT_S, GRIT>>
    /\ label_search(GRIT_S, blob) /\ label_search(GRIT, blob)
    /\ Len(detect_measures(blob)) = 1
    /\ detect_measures(blob)[1].alias = GRIT_S
    /\ \E j \in ConsRows :
          /\ FirstKey(ConsKeys, AXIS.construct_addendum[j].label) = 4
          /\ Len(add_proposals[j].proposal.evidence) = 1

----------------------------------------------------------------------------
(* C9 *)

IsProposal(p) ==
    /\ {"proposed", "evidence"} \subseteq DOMAIN p
    /\ p.proposed \in Scores

RowsFor(rows, items) ==
    /\ Len(rows) <= Len(items)
    /\ \A j \in 1..Len(rows) :
          /\ rows[j].id = items[j].id
          /\ rows[j].label = items[j].label
          /\ IsProposal(rows[j].proposal)

\* C9: every row built carries a Proposal whose proposed value is one of
\* Yes, No, Unclear, N/A; the rows stand in configuration order, one per
\* item, and when the script is ready there is exactly one row per
\* configured item.
C9_EveryItemProposed ==
    /\ RowsFor(axis_proposals, AXIS.axis_items)
    /\ RowsFor(add_proposals, AXIS.construct_addendum)
    /\ pc = "ready" => /\ Len(axis_proposals) = Len(AXIS.axis_items)
                       /\ Len(add_proposals) = Len(AXIS.construct_addendum)

\* the whole addendum checklist, the label of no rule included, proposed on
\* an empty article
C9_Witness ==
    /\ pc = "ready"
    /\ blob = <<>>
    /\ Len(add_proposals) = Cardinality(ConsLabels)
    /\ \E j \in ConsRows : FirstKey(ConsKeys, add_proposals[j].label) = 0
    /\ \E j \in ConsRows : add_proposals[j].proposal.proposed = "No"

----------------------------------------------------------------------------
(* C10 *)

\* C10: the addendum item the "subcomponents" rule handles: when no
\* construct of the knowledge base has a subcomponent phrase, the proposal
\* is "Unclear" and its evidence is empty, for every text.
C10_NoSubcomponentsUnclear ==
    \A j \in ConsRows :
        LET citem == AXIS.construct_addendum[j]
            p     == add_proposals[j].proposal
        IN  (FirstKey(ConsKeys, citem.label) = 2 /\ SubsFrom(KB.constructs) = <<>>)
            => p.proposed = "Unclear" /\ p.evidence = <<>>

====
